---- MODULE Spec2Model ----
(***************************************************************************)
(* A model of the todo reminder program (src/src/main.rs): the task store  *)
(* behind its tokio Mutex, the JSON persistence layer (load / save /       *)
(* file_exists), the timer units spawned by main, and main's control flow  *)
(* up to the Ctrl+C wait and the final save.                               *)
(*                                                                         *)
(* Text is modelled as sequences of one-character strings, so that the     *)
(* serde_json encoding and decoding are computed and not assumed.          *)
(***************************************************************************)
EXTENDS Integers, Sequences, FiniteSets, TLC

\* ------------------------------------------------------------------ bounds

\* Largest number of tasks in a store.
MaxTasks == 2
\* The wall clock reading (seconds) when the process starts.
StartTime == 2
\* How many seconds late the runtime may be: in polling a spawned unit for
\* the first time, and in waking a unit whose sleep is over.
Slack == 1

\* ------------------------------------------------------- program constants

\* main.rs:200  sleep(Duration::from_secs(5))
SLEEP_SECS == 5

\* main.rs:123  3153600000 seconds, the hundred years of the parser's upper
\* limit, in days of 86400 seconds.
HUNDRED_YEARS_DAYS == 36500

\* main.rs:106  the digits chrono reads for %Y, and for %d %m %H %M.
YEAR_WIDTH == 4

FIELD_WIDTH == 2

\* main.rs:120  timestamp(): the days from 0001-01-01 to the Unix epoch.
EPOCH_DAYS == 719162

\* The clock stops here: every unit started has been due for Slack seconds.
MaxTime == StartTime + SLEEP_SECS + 2 * Slack

\* ------------------------------------------------------------------- text

QUOTE == "\""
BSLASH == "\\"
\* A byte that is not valid UTF-8: read_to_string fails on a file holding it.
BADBYTE == "#FF"

DigitChars == <<"0", "1", "2", "3", "4", "5", "6", "7", "8", "9">>

\* main.rs:19-24  enum Priority, by the names serde gives the unit variants.
Priority == {"Low", "Medium", "High"}

PriorityChars(p) ==
    CASE p = "Low" -> <<"L", "o", "w">>
      [] p = "Medium" -> <<"M", "e", "d", "i", "u", "m">>
      [] p = "High" -> <<"H", "i", "g", "h">>

\* main.rs:26-32  struct Task; the pool holds the tasks the model draws from:
\* one whose deadline is past when the process starts, one whose deadline
\* comes during the timers' sleep and one whose deadline is later than the end
\* of the sleep, with contents that hold JSON's own punctuation.
TaskPool ==
    { [content |-> <<"a", ",">>, deadline |-> 1, priority |-> "Low", completed |-> FALSE],
      [content |-> <<>>, deadline |-> 4, priority |-> "Medium", completed |-> FALSE],
      [content |-> <<QUOTE, BSLASH>>, deadline |-> 12, priority |-> "High", completed |-> TRUE] }

\* Vec<Task> values of at most MaxTasks elements.
Stores == UNION { [1..n -> TaskPool] : n \in 0..MaxTasks }

\* ------------------------------------------------- serde_json::to_string

KeyContent == <<QUOTE, "c", "o", "n", "t", "e", "n", "t", QUOTE, ":">>
KeyDeadline == <<QUOTE, "d", "e", "a", "d", "l", "i", "n", "e", QUOTE, ":">>
KeyPriority == <<QUOTE, "p", "r", "i", "o", "r", "i", "t", "y", QUOTE, ":">>
KeyCompleted == <<QUOTE, "c", "o", "m", "p", "l", "e", "t", "e", "d", QUOTE, ":">>
LitTrue == <<"t", "r", "u", "e">>
LitFalse == <<"f", "a", "l", "s", "e">>

\* A u64 in decimal.
RECURSIVE ToDigits(_)
ToDigits(n) ==
    IF n < 10 THEN <<DigitChars[n + 1]>>
    ELSE ToDigits(n \div 10) \o <<DigitChars[(n % 10) + 1]>>

\* The mutant of EscapeStr: a writer that forgets to escape.
EscapeStrNone(s) == s

\* The body of a JSON string: the quote and the backslash are escaped.
RECURSIVE EscapeStr(_)
EscapeStr(s) ==
    IF s = <<>> THEN <<>>
    ELSE (IF Head(s) \in {QUOTE, BSLASH} THEN <<BSLASH, Head(s)>> ELSE <<Head(s)>>)
         \o EscapeStr(Tail(s))

JsonString(s) == <<QUOTE>> \o EscapeStr(s) \o <<QUOTE>>

\* One Task as serde's derived Serialize writes it: the fields in their
\* declared order, compact.
SerTask(t) ==
    <<"{">> \o KeyContent \o JsonString(t.content)
    \o <<",">> \o KeyDeadline \o ToDigits(t.deadline)
    \o <<",">> \o KeyPriority \o JsonString(PriorityChars(t.priority))
    \o <<",">> \o KeyCompleted \o (IF t.completed THEN LitTrue ELSE LitFalse)
    \o <<"}">>

RECURSIVE SerTasks(_)
SerTasks(v) ==
    IF v = <<>> THEN <<>>
    ELSE IF Len(v) = 1 THEN SerTask(v[1])
    ELSE SerTask(v[1]) \o <<",">> \o SerTasks(Tail(v))

\* main.rs:159  serde_json::to_string(&*guard)
to_string(v) == <<"[">> \o SerTasks(v) \o <<"]">>

\* --------------------------------------------------- serde_json::from_str
\* The reader of the compact documents to_string writes, one character at a
\* time.  Every other text the model puts in the file (the empty file, a cut
\* document, stray text) is malformed JSON, which serde_json refuses as well.
\* The reader's state: its phase ph; in phase "lit" the characters still
\* expected (want) and the phase after them (then); the string or the number
\* being read (acc, num) and the field it is for; the task being read (cur)
\* and the tasks read (out).

NoTask == [content |-> <<>>, deadline |-> 0, priority |-> "Low", completed |-> FALSE]

ReaderStart ==
    [ph |-> "start", want |-> <<>>, then |-> "", field |-> "", acc |-> <<>>,
     num |-> 0, cur |-> NoTask, out |-> <<>>]

Failed(st) == [st EXCEPT !.ph = "fail"]

\* Expect the characters of lit, then go to phase nxt.
Expect(st, lit, nxt) == [st EXCEPT !.ph = "lit", !.want = lit, !.then = nxt]

IsDigit(c) == \E d \in 1..10 : DigitChars[d] = c

DigitValue(c) == (CHOOSE d \in 1..10 : DigitChars[d] = c) - 1

\* The closing quote of a string: the content, or the name of a Priority
\* variant (an unknown name is an error).
StringDone(st) ==
    IF st.field = "content"
    THEN Expect([st EXCEPT !.cur.content = st.acc], <<",">> \o KeyDeadline, "numFirst")
    ELSE IF \E q \in Priority : PriorityChars(q) = st.acc
         THEN Expect([st EXCEPT !.cur.priority =
                                  CHOOSE q \in Priority : PriorityChars(q) = st.acc],
                     <<",">> \o KeyCompleted, "bool")
    ELSE Failed(st)

\* The comma after the digits of the deadline.
NumberDone(st) ==
    Expect([st EXCEPT !.cur.deadline = st.num, !.field = "priority"],
           KeyPriority, "strOpen")

ReaderStep(st, c) ==
    CASE st.ph = "start" ->
           IF c = "[" THEN [st EXCEPT !.ph = "first"] ELSE Failed(st)
      [] st.ph = "first" ->
           IF c = "]" THEN [st EXCEPT !.ph = "end"]
           ELSE IF c = "{" THEN Expect([st EXCEPT !.field = "content"], KeyContent, "strOpen")
           ELSE Failed(st)
      [] st.ph = "lit" ->
           IF c # Head(st.want) THEN Failed(st)
           ELSE IF Len(st.want) = 1 THEN [st EXCEPT !.ph = st.then, !.want = <<>>]
           ELSE [st EXCEPT !.want = Tail(st.want)]
      [] st.ph = "strOpen" ->
           IF c = QUOTE THEN [st EXCEPT !.ph = "str", !.acc = <<>>] ELSE Failed(st)
      [] st.ph = "str" ->
           IF c = QUOTE THEN StringDone(st)
           ELSE IF c = BSLASH THEN [st EXCEPT !.ph = "esc"]
           ELSE [st EXCEPT !.acc = Append(st.acc, c)]
      [] st.ph = "esc" ->
           IF c \in {QUOTE, BSLASH} THEN [st EXCEPT !.ph = "str", !.acc = Append(st.acc, c)]
           ELSE Failed(st)
      [] st.ph = "numFirst" ->
           \* a u64: digits, no sign, no leading zero
           IF ~IsDigit(c) THEN Failed(st)
           ELSE [st EXCEPT !.ph = IF c = "0" THEN "numZero" ELSE "num",
                           !.num = DigitValue(c)]
      [] st.ph = "num" ->
           IF IsDigit(c) THEN [st EXCEPT !.num = st.num * 10 + DigitValue(c)]
           ELSE IF c = "," THEN NumberDone(st)
           ELSE Failed(st)
      [] st.ph = "numZero" ->
           IF c = "," THEN NumberDone(st) ELSE Failed(st)
      [] st.ph = "bool" ->
           IF c = "t" THEN Expect([st EXCEPT !.cur.completed = TRUE], Tail(LitTrue), "close")
           ELSE IF c = "f"
                THEN Expect([st EXCEPT !.cur.completed = FALSE], Tail(LitFalse), "close")
           ELSE Failed(st)
      [] st.ph = "close" ->
           IF c = "}" THEN [st EXCEPT !.ph = "after", !.out = Append(st.out, st.cur)]
           ELSE Failed(st)
      [] st.ph = "after" ->
           IF c = "]" THEN [st EXCEPT !.ph = "end"]
           ELSE IF c = ","
                THEN Expect([st EXCEPT !.field = "content", !.cur = NoTask],
                            <<"{">> \o KeyContent, "strOpen")
           ELSE Failed(st)
      [] OTHER -> Failed(st)   \* "end": characters after the array; "fail"

\* The reader's state after the characters s[lo..hi], read from state st:
\* the first half, then the second half from the state the first half left.
RECURSIVE ReaderRun(_, _, _, _)
ReaderRun(s, lo, hi, st) ==
    IF lo > hi THEN st
    ELSE IF lo = hi THEN ReaderStep(st, s[lo])
    ELSE CHOOSE r \in { ReaderRun(s, m + 1, hi, st1) :
                          m \in {(lo + hi) \div 2},
                          st1 \in {ReaderRun(s, lo, (lo + hi) \div 2, st)} } : TRUE

\* main.rs:184  serde_json::from_str::<Vec<Task>>(&data): the whole text must
\* be one array of tasks.
from_str(s) ==
    CHOOSE r \in { IF st.ph = "end" THEN [ok |-> TRUE, tasks |-> st.out]
                   ELSE [ok |-> FALSE, tasks |-> <<>>] :
                   st \in {ReaderRun(s, 1, Len(s), ReaderStart)} } : TRUE

\* ------------------------------------------------------------ file system
\* The directory ~/todo and the file ~/todo/tasks.json: [dir, exists, data].
\* A call of load or save takes a fault: the one operating-system call of it
\* that fails for a reason of the environment (permissions, a full or
\* read-only disk), or "none".

Faults == {"none", "read", "mkdir", "create", "open", "write"}

NoFile(d) == [dir |-> d, exists |-> FALSE, data |-> <<>>]

HasBadByte(data) == \E k \in 1..Len(data) : data[k] = BADBYTE

\* std::fs::read_to_string: NotFound for a missing file; another error for
\* bytes that are not UTF-8 or for a failed read.
read_to_string(f, fault) ==
    IF ~f.exists THEN [ok |-> FALSE, kind |-> "NotFound", data |-> <<>>]
    ELSE IF fault = "read" \/ HasBadByte(f.data)
         THEN [ok |-> FALSE, kind |-> "Other", data |-> <<>>]
    ELSE [ok |-> TRUE, kind |-> "none", data |-> f.data]

\* std::fs::create_dir_all: succeeds on a directory that exists.
create_dir_all(f, fault) ==
    IF f.dir THEN [ok |-> TRUE, fs |-> f]
    ELSE IF fault = "mkdir" THEN [ok |-> FALSE, fs |-> f]
    ELSE [ok |-> TRUE, fs |-> [f EXCEPT !.dir = TRUE]]

\* std::fs::File::create: creates or truncates.
File_create(f, fault) ==
    IF ~f.dir \/ fault = "create" THEN [ok |-> FALSE, fs |-> f]
    ELSE [ok |-> TRUE, fs |-> [f EXCEPT !.exists = TRUE, !.data = <<>>]]

\* std::fs::write: opens with create and truncate, then writes all of data.
\* A failed open leaves the file as it was; a failed write leaves it cut
\* (here: empty).
write(f, data, fault) ==
    IF ~f.dir \/ fault = "open" THEN [ok |-> FALSE, fs |-> f]
    ELSE IF fault = "write"
         THEN [ok |-> FALSE, fs |-> [f EXCEPT !.exists = TRUE, !.data = <<>>]]
    ELSE [ok |-> TRUE, fs |-> [f EXCEPT !.exists = TRUE, !.data = data]]

\* main.rs:141-155
file_exists(f, create, fault) ==
    IF ~f.exists
    THEN IF create
         THEN LET m == create_dir_all(f, fault) IN
              IF ~m.ok THEN [ok |-> FALSE, val |-> FALSE, fs |-> m.fs]
              ELSE LET c == File_create(m.fs, fault) IN
                   IF ~c.ok THEN [ok |-> FALSE, val |-> FALSE, fs |-> c.fs]
                   ELSE [ok |-> TRUE, val |-> TRUE, fs |-> c.fs]
         ELSE [ok |-> TRUE, val |-> FALSE, fs |-> f]
    ELSE [ok |-> TRUE, val |-> TRUE, fs |-> f]

\* main.rs:157-164, after the guard is taken: [ok, fs].
save(f, v, fault) ==
    LET data == to_string(v)
        e == file_exists(f, TRUE, fault)
    IN  IF ~e.ok THEN [ok |-> FALSE, fs |-> e.fs]
        ELSE LET w == write(e.fs, data, fault) IN
             [ok |-> w.ok, fs |-> w.fs]

LoadResult(f, d, e) ==
    LET r == from_str(d) IN
    [ok |-> r.ok, tasks |-> r.tasks, err |-> IF r.ok THEN e ELSE "json", fs |-> f]

\* The mutant of load: a missing file is answered without creating anything.
loadNoCreate(f, fault) ==
    LET r == read_to_string(f, fault) IN
    IF r.ok THEN LoadResult(f, r.data, "none")
    ELSE LoadResult(f, <<"[", "]">>, "none")

\* main.rs:166-186: [ok, tasks, err, fs].
load(f, fault) ==
    LET r == read_to_string(f, fault) IN
    IF r.ok THEN LoadResult(f, r.data, "none")
    ELSE IF r.kind = "NotFound"
         THEN LET m == create_dir_all(f, fault) IN
              IF ~m.ok
              THEN [ok |-> FALSE, tasks |-> <<>>, err |-> "io", fs |-> m.fs]
              ELSE LoadResult(write(m.fs, <<>>, fault).fs, <<"[", "]">>, "none")
    ELSE LoadResult(f, <<"[", "]">>, "none")

\* The faults that change what the call does, and "none": a fault at a system
\* call that the call never makes is the call without fault.
LoadFaults(f) == { x \in Faults : x = "none" \/ load(f, x) # load(f, "none") }

SaveFaults(f, v) == { x \in Faults : x = "none" \/ save(f, v, x) # save(f, v, "none") }

\* ------------------------------------------------------------------ state

VARIABLES
    fs,            \* the directory and the tasks file
    tasks,         \* the Vec<Task> inside tasks_arc
    guard,         \* who holds the Mutex of tasks_arc: "free" or "main"
    pc,            \* where main is (where it was, once the process has ended)
    exitCode,      \* "running", or how the process ended: "Ok", "Err", "Killed"
    timers,        \* the spawned timer units, in spawn order
    joinIdx,       \* the handle the join loop awaits
    now,           \* the wall clock, in seconds
    sigHandler,    \* whether the Ctrl+C listener is registered
    sigPending,    \* an interrupt delivered to the listener
    saveRes,       \* "pending", or the result of the final save
    intDuringWait, \* an interrupt arrived while a timer was in its sleep
    ops,           \* the persistence calls made so far
    parsed         \* the last call of timestamp_from_date, or NoCall

vars == <<fs, tasks, guard, pc, exitCode, timers, joinIdx, now, sigHandler,
          sigPending, saveRes, intDuringWait, ops,
         parsed>>

\* No call of timestamp_from_date has been made: main's only call is inside
\* the comment of lines 56-64.
NoCall == [outcome |-> "none"]

\* Texts that are not a JSON array of tasks: the empty file, a cut document,
\* stray text.
Malformed ==
    { <<>>, <<"[">>, <<"x">>, <<"[", "]", "]">> }
    \cup { SubSeq(to_string(s), 1, Len(to_string(s)) - 1) : s \in {v \in Stores : Len(v) = 1} }

\* Files whose bytes are not UTF-8.
NotUtf8 == { <<BADBYTE>>, <<"[", BADBYTE, "]">> }

FileTexts == { to_string(s) : s \in Stores } \cup Malformed \cup NotUtf8

InitFiles ==
    { NoFile(FALSE), NoFile(TRUE) }
    \cup { [dir |-> TRUE, exists |-> TRUE, data |-> d] : d \in FileTexts }

Init ==
    /\ fs \in InitFiles
    /\ tasks = <<>>
    /\ guard = "free"
    /\ pc = "load"
    /\ exitCode = "running"
    /\ timers = <<>>
    /\ joinIdx = 1
    /\ now = StartTime
    /\ sigHandler = FALSE
    /\ sigPending = FALSE
    /\ saveRes = "pending"
    /\ intDuringWait = FALSE
    /\ ops = <<>>
    /\ parsed = NoCall

Alive == exitCode = "running"

\* A persistence call: the file system before and after it, its fault, its
\* result (ok, and the tasks saved or loaded) and the holder of the guard.
OpEntry(op, fault, before, after, ok, v) ==
    [op |-> op, fault |-> fault, before |-> before, after |-> after,
     ok |-> ok, tasks |-> v, guard |-> guard]

\* ops keeps the last two calls.
Logged(e) == IF ops = <<>> THEN <<e>> ELSE <<ops[Len(ops)], e>>

\* ------------------------------------------------------------------- main

\* main.rs:52-54  load(&tasks_location)?: an error ends main.
MainLoad ==
    /\ Alive /\ pc = "load"
    /\ \E fault \in LoadFaults(fs) :
         LET r == load(fs, fault) IN
         /\ fs' = r.fs
         /\ ops' = Logged(OpEntry("load", fault, fs, r.fs, r.ok, r.tasks))
         /\ IF r.ok
            THEN /\ tasks' = r.tasks
                 /\ pc' = "lock1"
                 /\ exitCode' = exitCode
            ELSE /\ tasks' = tasks
                 /\ pc' = "exit"
                 /\ exitCode' = "Err"
    /\ UNCHANGED <<parsed, guard, timers, joinIdx, now, sigHandler, sigPending, saveRes,
                   intDuringWait>>

\* main.rs:66  tasks_arc.lock().await
MainLock1 ==
    /\ Alive /\ pc = "lock1" /\ guard = "free"
    /\ guard' = "main"
    /\ pc' = "render"
    /\ UNCHANGED <<parsed, fs, tasks, exitCode, timers, joinIdx, now, sigHandler, sigPending,
                   saveRes, intDuringWait, ops>>

\* main.rs:67-73  the list view is built, then drop(tasks_guard)
MainRender ==
    /\ Alive /\ pc = "render"
    /\ guard' = "free"
    /\ pc' = "lock2"
    /\ UNCHANGED <<parsed, fs, tasks, exitCode, timers, joinIdx, now, sigHandler, sigPending,
                   saveRes, intDuringWait, ops>>

\* main.rs:78-79  the block's tasks_guard
MainLock2 ==
    /\ Alive /\ pc = "lock2" /\ guard = "free"
    /\ guard' = "main"
    /\ pc' = "spawn"
    /\ UNCHANGED <<parsed, fs, tasks, exitCode, timers, joinIdx, now, sigHandler, sigPending,
                   saveRes, intDuringWait, ops>>

NewTimer(t) ==
    [pc |-> "spawned", task |-> t, wakeAt |-> 0, shows |-> 0,
     beforeDeadline |-> FALSE, result |-> "none"]

\* main.rs:81-84  one turn of the spawn loop: tokio::spawn(timer(task.clone(), ..))
MainSpawn ==
    /\ Alive /\ pc = "spawn"
    /\ IF Len(timers) < Len(tasks)
       THEN /\ timers' = Append(timers, NewTimer(tasks[Len(timers) + 1]))
            /\ pc' = pc
       ELSE /\ timers' = timers
            /\ pc' = "join"
    /\ UNCHANGED <<parsed, fs, tasks, guard, exitCode, joinIdx, now, sigHandler, sigPending,
                   saveRes, intDuringWait, ops>>

\* The mutant of MainJoin: the unit's error is propagated (handle.await??).
MainJoinPropagate ==
    /\ Alive /\ pc = "join"
    /\ joinIdx <= Len(timers)
    /\ timers[joinIdx].pc = "done"
    /\ joinIdx' = joinIdx + 1
    /\ IF timers[joinIdx].result = "Err"
       THEN pc' = "exit" /\ exitCode' = "Err"
       ELSE pc' = pc /\ exitCode' = exitCode
    /\ UNCHANGED <<parsed, fs, tasks, guard, timers, now, sigHandler, sigPending,
                   saveRes, intDuringWait, ops>>

\* main.rs:86-88  let _ = handle.await: waits for the unit, drops its result.
MainJoin ==
    /\ Alive /\ pc = "join"
    /\ joinIdx <= Len(timers)
    /\ timers[joinIdx].pc = "done"
    /\ joinIdx' = joinIdx + 1
    /\ UNCHANGED <<parsed, fs, tasks, guard, pc, exitCode, timers, now, sigHandler, sigPending,
                   saveRes, intDuringWait, ops>>

\* The mutant of MainEndBlock: tasks_guard outlives the block.
MainEndBlockKeepsGuard ==
    /\ Alive /\ pc = "join"
    /\ joinIdx > Len(timers)
    /\ pc' = "ui"
    /\ UNCHANGED <<parsed, fs, tasks, guard, exitCode, timers, joinIdx, now, sigHandler,
                   sigPending, saveRes, intDuringWait, ops>>

\* main.rs:89  the block ends: tasks_guard is dropped here.
MainEndBlock ==
    /\ Alive /\ pc = "join"
    /\ joinIdx > Len(timers)
    /\ guard' = "free"
    /\ pc' = "ui"
    /\ UNCHANGED <<parsed, fs, tasks, exitCode, timers, joinIdx, now, sigHandler, sigPending,
                   saveRes, intDuringWait, ops>>

\* main.rs:91  siv.run() returns when the user quits the interface.
MainUi ==
    /\ Alive /\ pc = "ui"
    /\ pc' = "listen"
    /\ UNCHANGED <<parsed, fs, tasks, guard, exitCode, timers, joinIdx, now, sigHandler,
                   sigPending, saveRes, intDuringWait, ops>>

\* main.rs:93  signal::ctrl_c() registers the listener: from here on an
\* interrupt is delivered to it instead of ending the process.
MainListen ==
    /\ Alive /\ pc = "listen"
    /\ sigHandler' = TRUE
    /\ pc' = "wait_sig"
    /\ UNCHANGED <<parsed, fs, tasks, guard, exitCode, timers, joinIdx, now, sigPending,
                   saveRes, intDuringWait, ops>>

\* The mutant of MainCtrlC: main returns without saving.
MainCtrlCNoSave ==
    /\ Alive /\ pc = "wait_sig" /\ sigPending
    /\ pc' = "return"
    /\ UNCHANGED <<parsed, fs, tasks, guard, exitCode, timers, joinIdx, now, sigHandler,
                   sigPending, saveRes, intDuringWait, ops>>

\* main.rs:93-94  ctrl_c().await completes on the interrupt.
MainCtrlC ==
    /\ Alive /\ pc = "wait_sig" /\ sigPending
    /\ pc' = "save_lock"
    /\ UNCHANGED <<parsed, fs, tasks, guard, exitCode, timers, joinIdx, now, sigHandler,
                   sigPending, saveRes, intDuringWait, ops>>

\* main.rs:95, 158  save: arc.lock().await
SaveLock ==
    /\ Alive /\ pc = "save_lock" /\ guard = "free"
    /\ guard' = "main"
    /\ pc' = "save_write"
    /\ UNCHANGED <<parsed, fs, tasks, exitCode, timers, joinIdx, now, sigHandler, sigPending,
                   saveRes, intDuringWait, ops>>

\* The mutant of SaveWrite: the error of save ends main (save(..).await?).
SaveWritePropagate ==
    /\ Alive /\ pc = "save_write"
    /\ \E fault \in SaveFaults(fs, tasks) :
         LET r == save(fs, tasks, fault) IN
         /\ fs' = r.fs
         /\ saveRes' = IF r.ok THEN "Ok" ELSE "Err"
         /\ ops' = Logged(OpEntry("save", fault, fs, r.fs, r.ok, tasks))
         /\ pc' = IF r.ok THEN "return" ELSE "exit"
         /\ exitCode' = IF r.ok THEN exitCode ELSE "Err"
    /\ guard' = "free"
    /\ UNCHANGED <<parsed, tasks, timers, joinIdx, now, sigHandler, sigPending,
                   intDuringWait>>

\* main.rs:159-164  the rest of save; its guard is dropped on return and main
\* drops the result (let _ =).
SaveWrite ==
    /\ Alive /\ pc = "save_write"
    /\ \E fault \in SaveFaults(fs, tasks) :
         LET r == save(fs, tasks, fault) IN
         /\ fs' = r.fs
         /\ saveRes' = IF r.ok THEN "Ok" ELSE "Err"
         /\ ops' = Logged(OpEntry("save", fault, fs, r.fs, r.ok, tasks))
    /\ guard' = "free"
    /\ pc' = "return"
    /\ UNCHANGED <<parsed, tasks, exitCode, timers, joinIdx, now, sigHandler, sigPending,
                   intDuringWait>>

\* main.rs:97  Ok(())
MainReturn ==
    /\ Alive /\ pc = "return"
    /\ pc' = "exit"
    /\ exitCode' = "Ok"
    /\ UNCHANGED <<parsed, fs, tasks, guard, timers, joinIdx, now, sigHandler, sigPending,
                   saveRes, intDuringWait, ops>>

\* ------------------------------------------------------------------ timer

\* main.rs:194-200  the unit's first poll: it prints and starts its sleep.
\* (The deadlines of TaskPool are timestamps chrono can represent, so the
\* unwrap of line 194 does not panic.)
TimerStart(i) ==
    /\ Alive
    /\ timers[i].pc = "spawned"
    /\ timers' = [timers EXCEPT ![i].pc = "sleeping",
                                ![i].wakeAt = now + SLEEP_SECS]
    /\ UNCHANGED <<parsed, fs, tasks, guard, pc, exitCode, joinIdx, now, sigHandler, sigPending,
                   saveRes, intDuringWait, ops>>

\* The mutant of TimerNotify: the unit shows its notification twice.
TimerNotifyTwice(i) ==
    /\ Alive
    /\ timers[i].pc = "sleeping"
    /\ now >= timers[i].wakeAt
    /\ \E res \in {"Ok", "Err"} :
         timers' = [timers EXCEPT ![i].pc = "done",
                                  ![i].shows = @ + 2,
                                  ![i].wakeAt = 0,
                                  ![i].beforeDeadline = (now < timers[i].task.deadline),
                                  ![i].result = res]
    /\ UNCHANGED <<parsed, fs, tasks, guard, pc, exitCode, joinIdx, now, sigHandler, sigPending,
                   saveRes, intDuringWait, ops>>

\* A mutant of TimerNotify: the unit marks its task completed in the store.
TimerNotifyCompletes(i) ==
    /\ Alive
    /\ timers[i].pc = "sleeping"
    /\ now >= timers[i].wakeAt
    /\ \E res \in {"Ok", "Err"} :
         timers' = [timers EXCEPT ![i].pc = "done",
                                  ![i].shows = @ + 1,
                                  ![i].wakeAt = 0,
                                  ![i].beforeDeadline = (now < timers[i].task.deadline),
                                  ![i].result = res]
    /\ tasks' = [tasks EXCEPT ![i].completed = TRUE]
    /\ UNCHANGED <<parsed, fs, guard, pc, exitCode, joinIdx, now, sigHandler, sigPending,
                   saveRes, intDuringWait, ops>>

\* A mutant of TimerNotify: a unit whose notification failed never returns.
TimerNotifyHangs(i) ==
    /\ Alive
    /\ timers[i].pc = "sleeping"
    /\ now >= timers[i].wakeAt
    /\ \E res \in {"Ok", "Err"} :
         timers' = [timers EXCEPT ![i].pc = IF res = "Ok" THEN "done" ELSE "hung",
                                  ![i].shows = @ + 1,
                                  ![i].wakeAt = 0,
                                  ![i].beforeDeadline = (now < timers[i].task.deadline),
                                  ![i].result = IF res = "Ok" THEN "Ok" ELSE "none"]
    /\ UNCHANGED <<parsed, fs, tasks, guard, pc, exitCode, joinIdx, now, sigHandler, sigPending,
                   saveRes, intDuringWait, ops>>

\* main.rs:200-207  the sleep is over: one Notification .show(), whose error
\* ends the unit with Err (the ? operator), and the unit returns.
TimerNotify(i) ==
    /\ Alive
    /\ timers[i].pc = "sleeping"
    /\ now >= timers[i].wakeAt
    /\ \E res \in {"Ok", "Err"} :
         timers' = [timers EXCEPT ![i].pc = "done",
                                  ![i].shows = @ + 1,
                                  ![i].wakeAt = 0,
                                  ![i].beforeDeadline = (now < timers[i].task.deadline),
                                  ![i].result = res]
    /\ UNCHANGED <<parsed, fs, tasks, guard, pc, exitCode, joinIdx, now, sigHandler, sigPending,
                   saveRes, intDuringWait, ops>>

\* ------------------------------------------------------------ environment

\* One second passes.  The clock is read first when a timer starts, so the
\* seconds before the first spawn are part of StartTime.  The runtime is at
\* most Slack seconds late: the spawn loop and the first poll of every unit
\* are over by StartTime + Slack, and a unit whose sleep is over is woken
\* within Slack seconds.
Tick ==
    /\ Alive
    /\ timers # <<>>
    /\ now < MaxTime
    /\ pc = "spawn" => now < StartTime + Slack
    /\ \A i \in 1..Len(timers) :
         /\ timers[i].pc = "spawned" => now < StartTime + Slack
         /\ timers[i].pc = "sleeping" => now < timers[i].wakeAt + Slack
    /\ now' = now + 1
    /\ UNCHANGED <<parsed, fs, tasks, guard, pc, exitCode, timers, joinIdx, sigHandler,
                   sigPending, saveRes, intDuringWait, ops>>

SomeTimerSleeping == \E i \in 1..Len(timers) : timers[i].pc = "sleeping"

\* SIGINT reaches the process.  Before signal::ctrl_c() has registered the
\* listener (main.rs:93) the signal has its default disposition and ends the
\* process where it stands; afterwards it is handed to the listener.
Interrupt ==
    /\ Alive
    /\ ~sigPending
    /\ intDuringWait' = (intDuringWait \/ SomeTimerSleeping)
    /\ IF sigHandler
       THEN /\ sigPending' = TRUE
            /\ exitCode' = exitCode
       ELSE /\ sigPending' = sigPending
            /\ exitCode' = "Killed"
    /\ UNCHANGED <<parsed, fs, tasks, guard, pc, timers, joinIdx, now, sigHandler, saveRes, ops>>

Next ==
    \/ MainLoad
    \/ MainLock1
    \/ MainRender
    \/ MainLock2
    \/ MainSpawn
    \/ MainJoin
    \/ MainEndBlock
    \/ MainUi
    \/ MainListen
    \/ MainCtrlC
    \/ SaveLock
    \/ SaveWrite
    \/ MainReturn
    \/ \E i \in 1..Len(timers) : TimerStart(i)
    \/ \E i \in 1..Len(timers) : TimerNotify(i)
    \/ Tick
    \/ Interrupt

Spec == Init /\ [][Next]_vars

\* What the tokio runtime and the clock guarantee: main runs when it can, a
\* spawned unit is polled, a unit whose sleep is over is woken, and time
\* passes.  Nothing makes the user quit the interface (MainUi) or send an
\* interrupt (Interrupt).
MainStep ==
    \/ MainLoad
    \/ MainLock1
    \/ MainRender
    \/ MainLock2
    \/ MainSpawn
    \/ MainJoin
    \/ MainEndBlock
    \/ MainListen
    \/ MainCtrlC
    \/ SaveLock
    \/ SaveWrite
    \/ MainReturn

TimerStep == \E i \in 1..Len(timers) : TimerStart(i) \/ TimerNotify(i)

FairSpec ==
    /\ Spec
    /\ WF_vars(MainStep)
    /\ WF_vars(TimerStep)
    /\ WF_vars(Tick)

\* ------------------------------------------------ the persistence layer alone
\* load and save as functions: called in any order, on any file, for any
\* store held in the Arc.

\* The files of InitIO: as in Init, with the documents of at most one task.
IOFiles ==
    { NoFile(FALSE), NoFile(TRUE) }
    \cup { [dir |-> TRUE, exists |-> TRUE, data |-> d] :
             d \in { to_string(s) : s \in {v \in Stores : Len(v) <= 1} }
                   \cup Malformed \cup NotUtf8 }

InitIO ==
    /\ fs \in IOFiles
    /\ tasks \in Stores
    /\ guard = "free"
    /\ pc = "load"
    /\ exitCode = "running"
    /\ timers = <<>>
    /\ joinIdx = 1
    /\ now = StartTime
    /\ sigHandler = FALSE
    /\ sigPending = FALSE
    /\ saveRes = "pending"
    /\ intDuringWait = FALSE
    /\ ops = <<>>
    /\ parsed = NoCall

\* load(path): the value it returns is kept in the call's entry.
IOLoad ==
    /\ \E fault \in LoadFaults(fs) :
         LET r == load(fs, fault) IN
         /\ fs' = r.fs
         /\ ops' = Logged(OpEntry("load", fault, fs, r.fs, r.ok, r.tasks))
    /\ UNCHANGED <<parsed, tasks, guard, pc, exitCode, timers, joinIdx, now, sigHandler,
                   sigPending, saveRes, intDuringWait>>

\* save(&arc, path): the guard is taken, the file written, the guard dropped.
IOSave ==
    /\ guard = "free"
    /\ \E fault \in SaveFaults(fs, tasks) :
         LET r == save(fs, tasks, fault) IN
         /\ fs' = r.fs
         /\ ops' = Logged([OpEntry("save", fault, fs, r.fs, r.ok, tasks)
                             EXCEPT !.guard = "main"])
    /\ UNCHANGED <<parsed, tasks, guard, pc, exitCode, timers, joinIdx, now, sigHandler,
                   sigPending, saveRes, intDuringWait>>

NextIO == IOLoad \/ IOSave

SpecIO == InitIO /\ [][NextIO]_vars

\* ---------------------------------------------------------- deadline parser

\* Instants are Unix timestamps held as [days, secs]: whole days since
\* 1970-01-01 and the second of the day, so that now + 3153600000 (line 123)
\* needs no number beyond 32 bits.
Instant(d, s) == [days |-> d, secs |-> s]

Before(a, b) == a.days < b.days \/ (a.days = b.days /\ a.secs < b.secs)

\* main.rs:123  now_timestamp + 3153600000, which is HUNDRED_YEARS_DAYS days.
PlusHundredYears(t) == Instant(t.days + HUNDRED_YEARS_DAYS, t.secs)

\* main.rs:106,109  str::trim, for the space character.
RECURSIVE trim(_)
trim(s) ==
    IF s = <<>> THEN s
    ELSE IF Head(s) = " " THEN trim(Tail(s))
    ELSE IF s[Len(s)] = " " THEN trim(SubSeq(s, 1, Len(s) - 1))
    ELSE s

\* main.rs:106  the format "%d/%m/%Y %H:%M" as chrono's items.
FormatItems == <<"%d", "/", "%m", "/", "%Y", " ", "%H", ":", "%M">>

IsNumeric(item) == item \in {"%d", "%m", "%Y", "%H", "%M"}

\* The most digits a numeric item reads.
ParseWidth(item) == IF item = "%Y" THEN YEAR_WIDTH ELSE FIELD_WIDTH

\* How many digits stand at pos, up to max.
DigitRun(s, pos, max) ==
    CHOOSE k \in 0..max :
        /\ pos + k - 1 <= Len(s)
        /\ \A j \in pos..(pos + k - 1) : IsDigit(s[j])
        /\ (k = max \/ pos + k > Len(s) \/ ~IsDigit(s[pos + k]))

RECURSIVE DigitsValue(_, _, _)
DigitsValue(s, pos, k) ==
    IF k = 0 THEN 0
    ELSE DigitsValue(s, pos, k - 1) * 10 + DigitValue(s[pos + k - 1])

\* How many spaces stand at pos.
RECURSIVE SpaceRun(_, _)
SpaceRun(s, pos) ==
    IF pos <= Len(s) /\ s[pos] = " " THEN 1 + SpaceRun(s, pos + 1) ELSE 0

NoFields == [ok |-> FALSE]

\* chrono's item-by-item parse: a numeric item reads one digit or more up to
\* its width, a space reads any run of spaces, another character reads
\* itself, and nothing may be left over.  Inputs carry no sign and no space
\* inside the date or the time.
RECURSIVE parse_items(_, _, _, _)
parse_items(s, pos, k, acc) ==
    IF k > Len(FormatItems)
    THEN IF pos > Len(s) THEN [acc EXCEPT !.ok = TRUE] ELSE NoFields
    ELSE IF IsNumeric(FormatItems[k])
    THEN CHOOSE r \in { IF n = 0 THEN NoFields
                        ELSE parse_items(s, pos + n, k + 1,
                                 [acc EXCEPT ![FormatItems[k]] = DigitsValue(s, pos, n)]) :
                        n \in {DigitRun(s, pos, ParseWidth(FormatItems[k]))} } : TRUE
    ELSE IF FormatItems[k] = " "
    THEN parse_items(s, pos + SpaceRun(s, pos), k + 1, acc)
    ELSE IF pos <= Len(s) /\ s[pos] = FormatItems[k]
    THEN parse_items(s, pos + 1, k + 1, acc)
    ELSE NoFields

IsLeap(y) == (y % 4 = 0 /\ y % 100 # 0) \/ y % 400 = 0

DaysInMonth(y, m) ==
    IF m = 2 THEN (IF IsLeap(y) THEN 29 ELSE 28)
    ELSE IF m \in {4, 6, 9, 11} THEN 30
    ELSE 31

\* The days of the proleptic Gregorian calendar from 1970-01-01 to y-m-d.
DaysBeforeYear(y) ==
    LET p == y - 1 IN
    365 * p + (p \div 4) - (p \div 100) + (p \div 400) - EPOCH_DAYS

RECURSIVE DaysBeforeMonth(_, _)
DaysBeforeMonth(y, m) ==
    IF m = 1 THEN 0 ELSE DaysBeforeMonth(y, m - 1) + DaysInMonth(y, m - 1)

DaysFromCivil(y, m, d) == DaysBeforeYear(y) + DaysBeforeMonth(y, m) + (d - 1)

\* NaiveDateTime::parse_from_str(s, "%d/%m/%Y %H:%M"): the fields, checked
\* against the calendar and the clock face, as a naive local date and time.
parse_from_str(s) ==
    CHOOSE r \in {
        IF ~f.ok THEN [ok |-> FALSE]
        ELSE IF \/ f["%m"] \notin 1..12
                \/ f["%d"] < 1
                \/ f["%H"] > 23
                \/ f["%M"] > 59
             THEN [ok |-> FALSE]
        ELSE IF f["%d"] > DaysInMonth(f["%Y"], f["%m"]) THEN [ok |-> FALSE]
        ELSE [ok |-> TRUE,
              naive |-> Instant(DaysFromCivil(f["%Y"], f["%m"], f["%d"]),
                                f["%H"] * 3600 + f["%M"] * 60)] :
        f \in { parse_items(s, 1, 1,
                     [i \in {"ok", "%d", "%m", "%Y", "%H", "%M"} |->
                         IF i = "ok" THEN FALSE ELSE 0]) } } : TRUE

\* The seconds of a day, in chrono's timestamp().
SECS_PER_DAY == 86400

\* main.rs:115-120  the instant of a naive local time in a zone whose offset
\* from UTC is zone.offset seconds east.
ToUtc(naive, zone) ==
    IF naive.secs >= zone.offset
    THEN Instant(naive.days, naive.secs - zone.offset)
    ELSE Instant(naive.days - 1, naive.secs + SECS_PER_DAY - zone.offset)

\* What the call does: it returns a timestamp or it panics; there is no
\* third way out of a function of type String -> u64.
Returned(t, resolved) ==
    [outcome |-> "returned", value |-> t, panic |-> "none",
     resolved |-> resolved, instant |-> t]

Panicked(msg, resolved, t) ==
    [outcome |-> "panicked", value |-> Instant(0, 0), panic |-> msg,
     resolved |-> resolved, instant |-> t]

Fallback == <<" ", "0", "0", ":", "0", "0">>

\* main.rs:102-139  timestamp_from_date, for the clock's value and the local
\* zone it runs with.
timestamp_from_date(deadline, now_timestamp, zone) ==
    CHOOSE r \in {
        IF ~p.ok THEN Panicked("parse", FALSE, Instant(0, 0))
        ELSE IF zone.local # "single" THEN Panicked("local", FALSE, Instant(0, 0))
        ELSE CHOOSE q \in {
                 IF Before(timestamp, now_timestamp)
                 THEN Panicked("past", TRUE, timestamp)
                 ELSE IF Before(PlusHundredYears(now_timestamp), timestamp)
                 THEN Panicked("too_far", TRUE, timestamp)
                 ELSE Returned(timestamp, TRUE) :
                 timestamp \in {ToUtc(p.naive, zone)} } : TRUE :
        p \in { IF first.ok THEN first
                ELSE parse_from_str(trim(deadline) \o Fallback) :
                first \in {parse_from_str(trim(deadline))} } } : TRUE

\* What the user may type: dates with and without a time, at and around the
\* clock's values and the upper limit, and texts that are no date.
DateInputs ==
    { <<"0", "3", "/", "1", "1", "/", "2", "0", "2", "6">>,
      <<"0", "3", "/", "1", "1", "/", "2", "0", "2", "6", " ", "0", "0", ":", "0", "0">>,
      <<"0", "3", "/", "1", "1", "/", "2", "0", "2", "6", " ", "1", "2", ":", "3", "0">>,
      <<"0", "3", "/", "1", "1", "/", "2", "0", "2", "6", " ", "1", "2", ":", "3", "1">>,
      <<" ", "0", "4", "/", "1", "1", "/", "2", "0", "2", "6", " ">>,
      <<"0", "2", "/", "1", "1", "/", "2", "0", "2", "6", " ", "2", "3", ":", "5", "9">>,
      <<"1", "0", "/", "1", "0", "/", "2", "1", "2", "6">>,
      <<"1", "0", "/", "1", "0", "/", "2", "1", "2", "6", " ", "0", "0", ":", "0", "1">>,
      <<"1", "0", "/", "1", "0", "/", "2", "1", "2", "6", " ", "1", "2", ":", "3", "1">>,
      <<"2", "9", "/", "0", "2", "/", "2", "0", "2", "7">>,
      <<"2", "9", "/", "0", "2", "/", "2", "0", "2", "8", " ", "0", "8", ":", "0", "0">>,
      <<"t", "o", "m", "o", "r", "r", "o", "w">>,
      <<>>,
      <<"0", "3", "/", "1", "1", "/", "2", "0", "2", "6", " ", "2", "5", ":", "0", "0">>,
      <<"3", "/", "1", "/", "2", "0", "2", "7", " ", "9", ":", "0", "5">>,
      <<"0", "3", "/", "1", "1", "/", "2", "0", "2">>,
      <<"0", "3", "-", "1", "1", "-", "2", "0", "2", "6">>,
      <<"0", "3", "/", "1", "1", "/", "2", "0", "2", "6", " ", "0", "1", ":", "0", "0">> }

\* Local::now() at the call: midnight of 2026-11-03 and 12:30:15 of that day.
Clocks ==
    { Instant(DaysFromCivil(2026, 11, 3), 0),
      Instant(DaysFromCivil(2026, 11, 3), 12 * 3600 + 30 * 60 + 15) }

\* The local zone: its offset, and whether it maps the naive time to one
\* instant, to two (clocks set back) or to none (clocks set forward).
Zones == [offset : {0, 3600}, local : {"single", "ambiguous", "none"}]

InitDate ==
    /\ fs = NoFile(TRUE)
    /\ tasks = <<>>
    /\ guard = "free"
    /\ pc = "add"
    /\ exitCode = "running"
    /\ timers = <<>>
    /\ joinIdx = 1
    /\ now = StartTime
    /\ sigHandler = FALSE
    /\ sigPending = FALSE
    /\ saveRes = "pending"
    /\ intDuringWait = FALSE
    /\ ops = <<>>
    /\ parsed = NoCall

\* A caller hands a text to timestamp_from_date.  A panic unwinds the caller:
\* the flow that called ends there.
DateParse ==
    /\ Alive
    /\ \E deadline \in DateInputs, clock \in Clocks, zone \in Zones :
         LET r == timestamp_from_date(deadline, clock, zone) IN
         /\ parsed' = [call |-> [deadline |-> deadline, now |-> clock, zone |-> zone],
                       outcome |-> r.outcome, value |-> r.value, panic |-> r.panic,
                       resolved |-> r.resolved, instant |-> r.instant]
         /\ exitCode' = IF r.outcome = "panicked" THEN "Panicked" ELSE exitCode
    /\ UNCHANGED <<fs, tasks, guard, pc, timers, joinIdx, now, sigHandler,
                   sigPending, saveRes, intDuringWait, ops>>

NextDate == DateParse

SpecDate == InitDate /\ [][NextDate]_vars

\* ----------------------------------------------------------------- claims

\* main is past the spawn loop.
Scheduled ==
    pc \in {"join", "ui", "listen", "wait_sig", "save_lock", "save_write", "return"}
    \/ (pc = "exit" /\ exitCode = "Ok")

\* main is past the join loop.
Joined ==
    pc \in {"ui", "listen", "wait_sig", "save_lock", "save_write", "return"}
    \/ (pc = "exit" /\ exitCode = "Ok")

Max(a, b) == IF a >= b THEN a ELSE b

C2_SleepsUntilDeadline ==
    \A i \in 1..Len(timers) :
      /\ timers[i].pc = "sleeping" => timers[i].wakeAt <= Max(now, timers[i].task.deadline)
      /\ timers[i].shows >= 1 => ~timers[i].beforeDeadline

\* C3: of two tasks, the one with the earlier deadline is notified first: the
\* later one is never notified while the earlier one has not been.
C3_FiresInDeadlineOrder ==
    \A a, b \in 1..Len(timers) :
      (timers[a].task.deadline < timers[b].task.deadline /\ timers[b].shows >= 1)
        => timers[a].shows >= 1

\* C4: an interrupt that arrives while a unit is in its sleep leads to the
\* store being saved and to the exit of the process: the process never ends,
\* after such an interrupt, without the save having been made.
C4_InterruptDuringWaitPersists ==
    (intDuringWait /\ ~Alive)
      => /\ saveRes # "pending"
         /\ saveRes = "Ok" => (fs.exists /\ fs.data = to_string(tasks))

\* C5: nobody holds the guard of the store while suspended on a timer: main
\* does not hold it while it awaits the handle of a unit that has not finished.
C5_GuardNotHeldAcrossWait ==
    ~(/\ Alive /\ guard = "main" /\ pc = "join"
      /\ joinIdx <= Len(timers)
      /\ timers[joinIdx].pc # "done")

\* C6: when main has returned through the shutdown path the save has been
\* made, with the guard held, of the store as it is; if the save succeeded the
\* file holds the serialization of the store; no save is made by a process
\* that ended another way, and none after the return.
C6_PersistBeforeExit ==
    /\ (pc = "exit" /\ exitCode = "Ok") => saveRes # "pending"
    /\ exitCode = "Err" => saveRes = "pending"
    /\ saveRes # "pending" =>
         /\ pc \in {"return", "exit"}
         /\ ops[Len(ops)].op = "save"
         /\ ops[Len(ops)].guard = "main"
         /\ ops[Len(ops)].tasks = tasks
         /\ guard = "free"
         /\ saveRes = "Ok" => (fs.exists /\ fs.data = to_string(tasks))

\* main has returned after a successful save of a store of two tasks.
C6_Witness ==
    /\ pc = "exit" /\ exitCode = "Ok" /\ saveRes = "Ok"
    /\ Len(tasks) = 2
    /\ fs.data = to_string(tasks)

\* C7: a save that succeeds, followed by a load (whose read does not fail),
\* returns the tasks that were saved: as many, in the same order, with the same
\* fields, whatever the file was before the save.
C7_SaveLoadRoundTrip ==
    (/\ Len(ops) = 2
     /\ ops[1].op = "save" /\ ops[1].ok
     /\ ops[2].op = "load" /\ ops[2].fault # "read")
      => /\ ops[2].ok
         /\ ops[2].tasks = ops[1].tasks

\* Two tasks, one of them with a quote and a backslash in its content, saved
\* where there was no file and no directory, and loaded back.
C7_Witness ==
    /\ Len(ops) = 2
    /\ ops[1].op = "save" /\ ops[1].ok /\ ~ops[1].before.dir
    /\ ops[2].op = "load" /\ ops[2].ok
    /\ Len(ops[2].tasks) = 2
    /\ ops[2].tasks[1].content = <<QUOTE, BSLASH>>
    /\ ops[2].tasks[2].deadline = 1

\* C8: load, when neither the file nor its directory exists (and the system
\* calls succeed), creates the directory and an empty file and returns an
\* empty store without error.
C8_LoadCreatesMissingFile ==
    \A k \in 1..Len(ops) :
      (/\ ops[k].op = "load" /\ ops[k].fault = "none"
       /\ ~ops[k].before.dir /\ ~ops[k].before.exists)
        => /\ ops[k].ok /\ ops[k].tasks = <<>>
           /\ ops[k].after = [dir |-> TRUE, exists |-> TRUE, data |-> <<>>]

\* main has loaded from a place with no directory and goes on with an empty
\* store; the empty file is there.
C8_Witness ==
    /\ pc = "lock1" /\ tasks = <<>>
    /\ Len(ops) = 1 /\ ops[1].op = "load" /\ ops[1].fault = "none"
    /\ ~ops[1].before.dir
    /\ fs.exists /\ fs.data = <<>>

\* C9: load on a file that exists and does not hold valid JSON returns an
\* error, never a store, and leaves the file system as it was.  (Stated for
\* the calls in which no system call fails for a reason of the environment.)
C9_LoadRejectsInvalidJson ==
    \A k \in 1..Len(ops) :
      (/\ ops[k].op = "load" /\ ops[k].fault = "none"
       /\ ops[k].before.exists /\ ~from_str(ops[k].before.data).ok)
        => /\ ~ops[k].ok
           /\ ops[k].after = ops[k].before

\* C10: a notification that fails ends its own unit only: the unit is done,
\* the process is not ended with an error, and when main is past the join
\* every unit has shown its notification, the failed ones and their siblings.
C10_NotificationFailureIsLocal ==
    /\ \A i \in 1..Len(timers) :
         timers[i].result = "Err" => (timers[i].pc = "done" /\ exitCode # "Err")
    /\ Joined => \A i \in 1..Len(tasks) : timers[i].shows = 1

\* The first unit's notification failed, its sibling's was shown, and main
\* has returned normally.
C10_Witness ==
    /\ pc = "exit" /\ exitCode = "Ok"
    /\ Len(timers) = 2
    /\ timers[1].result = "Err"
    /\ timers[2].result = "Ok" /\ timers[2].shows = 1


\* C11: once the interrupt has been received, main reaches its normal exit,
\* whether the save returns Ok or an error.
C11_SaveFailureDoesNotPreventExit ==
    (Alive /\ sigPending) ~> (pc = "exit" /\ exitCode = "Ok")

\* main has returned normally after a save that failed.
C11_Witness ==
    /\ pc = "exit" /\ exitCode = "Ok"
    /\ saveRes = "Err"
    /\ ops[Len(ops)].op = "save" /\ ~ops[Len(ops)].ok


\* C12: from the end of load to the final save the store is the loaded
\* sequence: each unit works on its own copy of a task, no unit and no
\* notification result changes the store, and save serializes the loaded
\* sequence.
C12_SchedulerLeavesStoreUnchanged ==
    (ops # <<>> /\ ops[1].op = "load" /\ ops[1].ok) =>
        /\ tasks = ops[1].tasks
        /\ \A i \in 1..Len(timers) : timers[i].task = ops[1].tasks[i]
        /\ Len(ops) = 2 =>
             /\ ops[2].op = "save"
             /\ ops[2].tasks = ops[1].tasks
             /\ ops[2].ok => fs.data = to_string(ops[1].tasks)

\* Two tasks were loaded, both units have fired, one notification failed, and
\* the store has been saved.
C12_Witness ==
    /\ Len(ops) = 2 /\ ops[1].ok /\ ops[2].ok
    /\ Len(ops[1].tasks) = 2
    /\ \A i \in 1..Len(timers) : timers[i].pc = "done"
    /\ \E i \in 1..Len(timers) : timers[i].result = "Err"
    /\ \E i \in 1..Len(timers) : ~timers[i].task.completed


\* C16: when save asks for the guard nobody holds it.  Only main ever holds
\* the guard (no unit takes it, sleeping or not), it holds it only inside the
\* scopes of its guards, and every one of them is over before save's lock, so
\* the acquisition is enabled whenever main is at it.
C16_SaveAcquiresFreeGuard ==
    /\ guard \in {"free", "main"}
    /\ guard = "main" => pc \in {"render", "spawn", "join", "save_write"}
    /\ (Alive /\ pc = "save_lock") => (guard = "free" /\ ENABLED SaveLock)

\* save is about to lock after two units ran while main held the guard of
\* the spawn block.
C16_Witness ==
    /\ Alive /\ pc = "save_lock" /\ guard = "free"
    /\ Len(timers) = 2
    /\ \A i \in 1..Len(timers) : timers[i].pc = "done"


\* C17: a unit whose sleep has begun ends, with either result of the
\* notification, and the join loop that main entered completes, unless the
\* process is killed first.
C17_TimersEndAndJoinCompletes ==
    /\ \A i \in 1..MaxTasks :
         (i <= Len(timers) /\ timers[i].pc = "sleeping")
             ~> (~Alive \/ (/\ i <= Len(timers)
                             /\ timers[i].pc = "done"
                             /\ timers[i].result \in {"Ok", "Err"}))
    /\ (Alive /\ pc = "join") ~> (~Alive \/ Joined)

\* main is past the join loop of two units, one ended with Ok and one with
\* Err.
C17_Witness ==
    /\ Alive /\ Joined /\ joinIdx = 3
    /\ \E i, j \in 1..Len(timers) :
         /\ timers[i].pc = "done" /\ timers[i].result = "Ok"
         /\ timers[j].pc = "done" /\ timers[j].result = "Err"


\* C15: once the interface has ended, main saves and exits without needing an
\* interrupt: wherever main is after siv.run() returned, it has a step of its
\* own to take until it has exited, and an interrupt that arrives after the
\* interface ended does not end the process without a save.
C15_UiEndAloneLeadsToSave ==
    /\ (Alive /\ pc \in {"listen", "wait_sig", "save_lock", "save_write", "return"})
          => ENABLED MainStep
    /\ (~Alive /\ pc \in {"listen", "wait_sig"}) => saveRes # "pending"


\* C18: a load that found no file and created it is followed, with no save in
\* between and no fault, by a load that also returns an empty store.
C18_MissingFileRecoveryRepeats ==
    (/\ Len(ops) = 2
     /\ ops[1].op = "load" /\ ops[1].ok /\ ~ops[1].before.exists /\ ops[1].after.exists
     /\ ops[2].op = "load" /\ ops[2].fault = "none" /\ ops[2].before = ops[1].after)
        => (ops[2].ok /\ ops[2].tasks = <<>>)



\* C19: load never answers a file that holds one or more valid tasks with an
\* empty store, whatever happens to the read, and so the shutdown save of an
\* empty store never replaces such a file.
C19_EmptyStoreOnlyFromMissingFile ==
    \A s \in Stores : Len(s) > 0 =>
        /\ (/\ ops # <<>> /\ ops[1].op = "load" /\ ops[1].ok
            /\ ops[1].before.exists /\ ops[1].before.data = to_string(s))
              => ops[1].tasks # <<>>
        /\ (/\ Len(ops) = 2 /\ ops[2].op = "save" /\ ops[2].ok
            /\ ops[2].before.exists /\ ops[2].before.data = to_string(s))
              => ops[2].tasks # <<>>


\* C13: an instant that is not strictly later than the clock's value, equal
\* to it included, is rejected as a date in the past (here: by the panic that
\* carries that message).
C13_RejectsInstantNotAfterNow ==
    (parsed.outcome # "none" /\ parsed.resolved /\ ~Before(parsed.call.now, parsed.instant))
        => (parsed.outcome = "panicked" /\ parsed.panic = "past")

\* C14: a text that is no date, a date in the past and a date beyond the
\* hundred years come back to the caller as an error value: the call never
\* ends the calling flow.
C14_InvalidDeadlineIsReturnedError ==
    parsed.outcome # "none" =>
        /\ parsed.outcome # "panicked"
        /\ exitCode = "running"

====
